---- MODULE Spec2Model ----
\* Model of MemTableList (db/memtablelist.cc): the list of immutable
\* memtables, the selection of flush candidates and the installation of
\* flush results, run by several flush threads under the DB mutex.  Every
\* action is one critical section of the mutex; LogAndApply releases the
\* mutex, so the commit scan is split at each LogAndApply call.
\* The module also models MemTableList::Get, and MergingIterator's
\* SwitchToForward, ClearHeaps and InitMaxHeap with MergeIteratorBuilder,
\* WrapToMergingIterator and NewMergingIterator (table/merging_iterator.cc),
\* each under a specification of its own.
EXTENDS Integers, Sequences, FiniteSets, TLC

\* ---------------------------------------------------------------- bounds
MaxMems == 3        \* memtables ever handed to Add
MaxFail == 1        \* injected failures (failed flushes + failed applies)
NumThreads == 2     \* concurrent flush threads
MaxThreshold == 2   \* largest threshold passed to IsFlushPending
MaxRefAll == 1      \* RefAll calls (readers taking the whole list)
MaxLiveMems == 2    \* memtables handed to Add where liveness is checked
NumChildren == 2    \* children of the MergingIterator
MaxKey == 2         \* largest key of a child
MaxIters == 2       \* iterators handed to AddIterator
MaxFinish == 2      \* calls of Finish on one builder

Threads == 1 .. NumThreads
MemIds == 1 .. MaxMems
Thresholds == 0 .. MaxThreshold
Keys == 1 .. MaxKey
Iters == 1 .. MaxIters
\* Every flush takes a fresh file number; a flush needs a queued memtable,
\* and memtables are queued by Add or by a rollback after a failure.
MaxFiles == MaxMems * (MaxFail + 1)
\* Turns of the do-while of the commit scan after the first one: a commit
\* removes a member and a rollback is meant to end the loop, so more turns
\* than there are memtables mean that the loop does not end.
MaxSpin == MaxMems + 1

VARIABLES
  memlist_,               \* sequence of memtable ids, newest at the head
  size_,                  \* MemTableList::size_
  num_flush_not_started_, \* MemTableList::num_flush_not_started_
  commit_in_progress_,    \* MemTableList::commit_in_progress_
  imm_flush_needed,       \* MemTableList::imm_flush_needed (non-null = TRUE)
  mt,                     \* the MemTable objects, by id
  pending_outputs,        \* the shared set of in-flight output files
  nextId,                 \* id of the next memtable handed to Add
  nextFile,               \* next number returned by NewFileNumber
  fails,                  \* failures injected so far
  refalls,                \* RefAll calls so far
  pc,                     \* where each flush thread is
  mems,                   \* each thread's batch (oldest first)
  file_number,            \* each thread's output file number
  flushStatus,            \* each thread's flush status
  m_,                     \* the scan's local MemTable* m across LogAndApply
  committed,              \* history: memtables in the order they were committed
  applied,                \* history: the edits LogAndApply has applied (an
                          \* edit is the file number it records, 0 if empty)
  last,                   \* the last call: its name, its thread, its
                          \* number (the threshold of IsFlushPending, the
                          \* result of size), the status or truth value it
                          \* returned, whether its assertions held
  got,                    \* the last call of Get: what each member holds for
                          \* the key, the operands on entry, and the outputs
  children_,              \* MergingIterator::children_: each child's keys
                          \* and its position among them
  current_,               \* MergingIterator::current_ (an index of children_)
  minHeap_,               \* MergingIterator::minHeap_ (children, as pushed)
  maxHeap_,               \* MergingIterator::maxHeap_ (allocated or not)
  direction_,             \* MergingIterator::direction_
  arena,                  \* MergeIteratorBuilder::arena ("none" before the
                          \* builder is constructed)
  merge_iter,             \* MergeIteratorBuilder::merge_iter: where the
                          \* iterator lives and the children it holds
  returned,               \* the MergingIterator* last returned to a caller
  added,                  \* history: the iterators passed to AddIterator
  finishes,               \* history: calls of Finish on the builder
  fault                   \* history: the undefined behaviour met so far,
                          \* and whether the process died of it

\* The variables of MemTableList and of its flush threads.
listVars == <<memlist_, size_, num_flush_not_started_, commit_in_progress_,
              imm_flush_needed, mt, pending_outputs, nextId, nextFile, fails,
              refalls, pc, mems, file_number, flushStatus, m_, committed,
              applied>>

\* The variables the operations of MemTableList on the flush path leave alone.
otherVars == <<got, children_, current_, minHeap_, maxHeap_, direction_,
              arena, merge_iter, returned, added, finishes, fault>>

\* The variables of MergingIterator.
iterVars == <<children_, current_, minHeap_, maxHeap_, direction_>>

\* The variables of MergeIteratorBuilder and of its callers.
builderVars == <<arena, merge_iter, returned, added, finishes, fault>>

vars == <<listVars, last, otherVars>>

\* ------------------------------------------------------------- helpers
\* Mutant of Back: the newest member instead of the oldest.
Back_Front(list) == list[1]

\* std::list::back()
Back(list) == list[Len(list)]

\* std::list::remove(m): drops every element equal to m
Remove(list, m) == SelectSeq(list, LAMBDA x : x # m)

\* Mutant of PushFront: the new member goes to the tail.
PushFront_AtBack(list, m) == Append(list, m)

\* std::list::push_front(m)
PushFront(list, m) == <<m>> \o list

\* F(v) with v evaluated once, like a local variable of the code.
Let(v, F(_)) == CHOOSE r \in {F(x) : x \in {v}} : TRUE

\* A MemTable as the list sees it right after it became immutable.
NewMemTable ==
  [flush_in_progress |-> FALSE, flush_completed |-> FALSE,
   file_number |-> 0, edit |-> 0, refs |-> 1]

\* The list state an operation works on, with its locals s and ret; spin
\* says that the do-while of the commit scan did not come to its end.
Cur ==
  [memlist |-> memlist_, size |-> size_, num |-> num_flush_not_started_,
   imm |-> imm_flush_needed, mt |-> mt, pend |-> pending_outputs,
   committed |-> committed, s |-> "ok", ret |-> <<>>, asserted |-> TRUE,
   spin |-> FALSE]

\* Writes the list state L back to the variables.
Store(L) ==
  /\ memlist_' = L.memlist
  /\ size_' = L.size
  /\ num_flush_not_started_' = L.num
  /\ imm_flush_needed' = L.imm
  /\ mt' = L.mt
  /\ pending_outputs' = L.pend
  /\ committed' = L.committed

\* A call of Get before any was made.
NoGet ==
  [look |-> [m \in MemIds |-> "absent"], operands0 |-> <<>>, ret |-> FALSE,
   by |-> 0, consulted |-> <<>>, operands |-> <<>>]

\* No MergingIterator is in use.
NoIter ==
  /\ children_ = <<>>
  /\ current_ = 0
  /\ minHeap_ = <<>>
  /\ maxHeap_ = [set |-> FALSE, heap |-> <<>>]
  /\ direction_ = "kForward"

\* The list after construction, no flush thread at work; first is the
\* first file number that a flush will be given.
ListInitFrom(first) ==
  /\ memlist_ = <<>>
  /\ size_ = 0
  /\ num_flush_not_started_ = 0
  /\ commit_in_progress_ = FALSE
  /\ imm_flush_needed = FALSE
  /\ mt = [m \in MemIds |-> NewMemTable]
  /\ pending_outputs = {}
  /\ nextId = 1
  /\ nextFile = first
  /\ fails = 0
  /\ refalls = 0
  /\ pc = [t \in Threads |-> "idle"]
  /\ mems = [t \in Threads |-> <<>>]
  /\ file_number = [t \in Threads |-> 0]
  /\ flushStatus = [t \in Threads |-> "ok"]
  /\ m_ = [t \in Threads |-> 0]
  /\ committed = <<>>
  /\ applied = {}
  /\ last = [op |-> "init", t |-> 0, n |-> 0, ret |-> "ok", asserted |-> TRUE]

\* A pointer to no MergingIterator.
NullIter == [ptr |-> "null", children |-> <<>>]

\* No MergeIteratorBuilder was constructed.
NoBuilder ==
  /\ arena = "none"
  /\ merge_iter = NullIter
  /\ returned = NullIter
  /\ added = <<>>
  /\ finishes = 0
  /\ fault = [what |-> "none", crashed |-> FALSE]

ListInit == ListInitFrom(1)

Init ==
  /\ ListInit
  /\ got = NoGet
  /\ NoIter
  /\ NoBuilder

\* ------------------------------------------------------- MemTableList::Add
\* Mutant of AddBody: the flush-needed signal is not set.
AddBody_NoSignal(L, m) ==
  [L EXCEPT !.asserted = L.asserted /\ (L.size >= L.num),
            !.size = L.size + 1,
            !.memlist = PushFront(L.memlist, m),
            !.num = L.num + 1]

AddBody(L, m) ==
  [L EXCEPT !.asserted = L.asserted /\ (L.size >= L.num),
            !.size = L.size + 1,
            !.memlist = PushFront(L.memlist, m),
            !.num = L.num + 1,
            !.imm = IF L.num + 1 = 1 THEN TRUE ELSE L.imm]

Add ==
  /\ nextId <= MaxMems
  /\ \E L \in {AddBody(Cur, nextId)} :
       /\ Store(L)
       /\ last' = [op |-> "Add", t |-> 0, n |-> 0, ret |-> "ok", asserted |-> L.asserted]
  /\ nextId' = nextId + 1
  /\ UNCHANGED <<commit_in_progress_, nextFile, fails, refalls, pc, mems,
                 file_number, flushStatus, m_>>
  /\ UNCHANGED <<applied, otherVars>>

\* ---------------------------------------------------- MemTableList::RefAll
RefAllBody(L) ==
  [L EXCEPT !.mt = [m \in MemIds |->
                      IF \E i \in 1 .. Len(L.memlist) : L.memlist[i] = m
                      THEN [L.mt[m] EXCEPT !.refs = L.mt[m].refs + 1]
                      ELSE L.mt[m]]]

RefAll ==
  /\ refalls < MaxRefAll
  /\ memlist_ # <<>>
  /\ refalls' = refalls + 1
  /\ Store(RefAllBody(Cur))
  /\ last' = [op |-> "RefAll", t |-> 0, n |-> 0, ret |-> "ok", asserted |-> TRUE]
  /\ UNCHANGED <<commit_in_progress_, nextId, nextFile, fails, pc, mems,
                 file_number, flushStatus, m_>>
  /\ UNCHANGED <<applied, otherVars>>

\* ------------------------------------------------------ MemTableList::size
size ==
  /\ last' = [op |-> "size", t |-> 0, n |-> size_, ret |-> "ok",
              asserted |-> (num_flush_not_started_ <= size_)]
  /\ UNCHANGED <<memlist_, size_, num_flush_not_started_, commit_in_progress_,
                 imm_flush_needed, mt, pending_outputs, nextId, nextFile,
                 fails, refalls, pc, mems, file_number, flushStatus, m_,
                 committed>>
  /\ UNCHANGED <<applied, otherVars>>

\* ------------------------------------------ MemTableList::IsFlushPending
IsFlushPendingResult(threshold) == num_flush_not_started_ >= threshold

IsFlushPending(threshold) ==
  /\ last' = [op |-> "IsFlushPending", t |-> 0, n |-> threshold,
              ret |-> IF IsFlushPendingResult(threshold) THEN "true" ELSE "false",
              asserted |-> (IsFlushPendingResult(threshold) => imm_flush_needed)]
  /\ UNCHANGED <<memlist_, size_, num_flush_not_started_, commit_in_progress_,
                 imm_flush_needed, mt, pending_outputs, nextId, nextFile,
                 fails, refalls, pc, mems, file_number, flushStatus, m_,
                 committed>>
  /\ UNCHANGED <<applied, otherVars>>

\* ------------------------------------------------------- MemTableList::Get
\* What a memtable can hold for the key of a lookup: a final result (a
\* value, a deletion marker or a not-found determination: MemTable::Get
\* returns true for each), a merge operand (it is added to the operands
\* and the lookup goes on), nothing.
Kinds == {"final", "merge", "absent"}
Resolves(kind) == kind = "final"

\* MemTable::Get of member m for the call G: TRUE in G.ret when m resolves
\* the lookup; a merge operand of m is added to G.operands.
MemTableGet(G, m) ==
  [G EXCEPT !.consulted = Append(G.consulted, m),
            !.ret = Resolves(G.look[m]),
            !.by = IF Resolves(G.look[m]) THEN m ELSE G.by,
            !.operands = IF G.look[m] = "merge"
                         THEN Append(G.operands, m) ELSE G.operands]

\* Mutant of GetLoop: the members are consulted from the oldest one.
RECURSIVE GetLoop_OldestFirst(_, _, _)
GetLoop_OldestFirst(G, list, i) ==
  IF i > Len(list) THEN [G EXCEPT !.ret = FALSE]
  ELSE Let(MemTableGet(G, list[Len(list) + 1 - i]),
           LAMBDA G1 : IF G1.ret THEN G1
                       ELSE GetLoop_OldestFirst(G1, list, i + 1))

\* The loop over memlist_ from its head; i is the position.
RECURSIVE GetLoop(_, _, _)
GetLoop(G, list, i) ==
  IF i > Len(list) THEN [G EXCEPT !.ret = FALSE]
  ELSE Let(MemTableGet(G, list[i]),
           LAMBDA G1 : IF G1.ret THEN G1 ELSE GetLoop(G1, list, i + 1))

\* Get(key, value, s, operands, options): look is what each member holds for
\* key, ops0 the operands the caller collected before the call (0 stands
\* for an operand of the active memtable).
Get ==
  /\ \E look \in [MemIds -> Kinds], ops0 \in {<<>>, <<0>>} :
       /\ \A m \in MemIds :
            (\A i \in 1 .. Len(memlist_) : memlist_[i] # m) => look[m] = "absent"
       /\ got' = GetLoop([NoGet EXCEPT !.look = look, !.operands0 = ops0,
                                       !.operands = ops0], memlist_, 1)
  /\ last' = [op |-> "Get", t |-> 0, n |-> 0,
              ret |-> IF got'.ret THEN "true" ELSE "false", asserted |-> TRUE]
  /\ UNCHANGED <<listVars, iterVars, builderVars>>

\* ------------------------------------ MemTableList::PickMemtablesToFlush
\* Mutant of PickBody: the member is not marked flush_in_progress_.
PickBody_NoMark(L, m) ==
  IF ~L.mt[m].flush_in_progress
  THEN [L EXCEPT !.asserted = L.asserted /\ ~L.mt[m].flush_completed,
                 !.num = L.num - 1,
                 !.imm = IF L.num - 1 = 0 THEN FALSE ELSE L.imm,
                 !.ret = Append(L.ret, m)]
  ELSE L

\* The body of the loop for one member m.
PickBody(L, m) ==
  IF ~L.mt[m].flush_in_progress
  THEN [L EXCEPT !.asserted = L.asserted /\ ~L.mt[m].flush_completed,
                 !.num = L.num - 1,
                 !.imm = IF L.num - 1 = 0 THEN FALSE ELSE L.imm,
                 !.mt[m].flush_in_progress = TRUE,
                 !.ret = Append(L.ret, m)]
  ELSE L

\* Mutant of PickLoop: the loop runs from begin() (the newest member).
RECURSIVE PickLoop_Forward(_, _)
PickLoop_Forward(L, i) ==
  IF i = 0 THEN L
  ELSE Let(PickBody(L, L.memlist[Len(L.memlist) + 1 - i]),
           LAMBDA L1 : PickLoop_Forward(L1, i - 1))

\* The loop from rbegin() (the oldest member) to rend(); i is the position.
RECURSIVE PickLoop(_, _)
PickLoop(L, i) ==
  IF i = 0 THEN L
  ELSE Let(PickBody(L, L.memlist[i]), LAMBDA L1 : PickLoop(L1, i - 1))

PickMemtablesToFlush(t) ==
  /\ pc[t] = "idle"
  /\ \E L \in {PickLoop(Cur, Len(memlist_))} :
       /\ Store(L)
       /\ mems' = [mems EXCEPT ![t] = L.ret]
       /\ pc' = [pc EXCEPT ![t] = IF L.ret = <<>> THEN "idle" ELSE "picked"]
       /\ last' = [op |-> "Pick", t |-> t, n |-> 0, ret |-> "ok", asserted |-> L.asserted]
  /\ UNCHANGED <<commit_in_progress_, nextId, nextFile, fails, refalls,
                 file_number, flushStatus, m_>>
  /\ UNCHANGED <<applied, otherVars>>

\* ------------------------------------------------ the flush of a batch
\* The flush job between PickMemtablesToFlush and
\* InstallMemtableFlushResults: it takes a fresh file number, enters it in
\* pending_outputs, writes the file, and records the new file in the edit
\* of the first memtable of the batch.  The flush may fail, before or after
\* the edit was filled in.
WriteLevel0Table(t) ==
  /\ pc[t] = "picked"
  /\ nextFile <= MaxFiles
  /\ \E st \in {"ok", "Corruption"}, rec \in BOOLEAN :
       /\ st = "ok" => rec
       /\ st # "ok" => fails < MaxFail
       /\ fails' = IF st = "ok" THEN fails ELSE fails + 1
       /\ flushStatus' = [flushStatus EXCEPT ![t] = st]
       /\ mt' = IF rec THEN [mt EXCEPT ![mems[t][1]].edit = nextFile] ELSE mt
  /\ file_number' = [file_number EXCEPT ![t] = nextFile]
  /\ nextFile' = nextFile + 1
  /\ pending_outputs' = pending_outputs \cup {nextFile}
  /\ pc' = [pc EXCEPT ![t] = "flushed"]
  /\ last' = [op |-> "Write", t |-> t, n |-> 0, ret |-> "ok", asserted |-> TRUE]
  /\ UNCHANGED <<memlist_, size_, num_flush_not_started_, commit_in_progress_,
                 imm_flush_needed, nextId, refalls, mems, m_, committed>>
  /\ UNCHANGED <<applied, otherVars>>

\* ------------------------------ MemTableList::InstallMemtableFlushResults
\* Mutant of ResetBody: flush_in_progress_ is not reset.
ResetBody_KeepInProgress(L, m, fnum) ==
  [L EXCEPT !.asserted = /\ L.asserted
                         /\ L.mt[m].flush_in_progress
                         /\ L.mt[m].file_number = 0,
            !.mt[m].flush_completed = FALSE,
            !.mt[m].edit = 0,
            !.num = L.num + 1,
            !.imm = TRUE,
            !.pend = L.pend \ {fnum}]

\* The flush failed: the body of the loop over mems.
ResetBody(L, m, fnum) ==
  [L EXCEPT !.asserted = /\ L.asserted
                         /\ L.mt[m].flush_in_progress
                         /\ L.mt[m].file_number = 0,
            !.mt[m].flush_in_progress = FALSE,
            !.mt[m].flush_completed = FALSE,
            !.mt[m].edit = 0,
            !.num = L.num + 1,
            !.imm = TRUE,
            !.pend = L.pend \ {fnum}]

RECURSIVE ResetLoop(_, _, _, _)
ResetLoop(L, batch, fnum, i) ==
  IF i > Len(batch) THEN L
  ELSE Let(ResetBody(L, batch[i], fnum),
           LAMBDA L1 : ResetLoop(L1, batch, fnum, i + 1))

\* Mutant of MarkBody: the file number is not stored in the member.
MarkBody_NoFileNumber(L, m, fnum, first) ==
  [L EXCEPT !.asserted = L.asserted /\ (first \/ L.mt[m].edit = 0),
            !.mt[m].flush_completed = TRUE]

\* The flush succeeded: the body of the loop over mems.
MarkBody(L, m, fnum, first) ==
  [L EXCEPT !.asserted = L.asserted /\ (first \/ L.mt[m].edit = 0),
            !.mt[m].flush_completed = TRUE,
            !.mt[m].file_number = fnum]

RECURSIVE MarkLoop(_, _, _, _)
MarkLoop(L, batch, fnum, i) ==
  IF i > Len(batch) THEN L
  ELSE Let(MarkBody(L, batch[i], fnum, i = 1),
           LAMBDA L1 : MarkLoop(L1, batch, fnum, i + 1))

\* Mutant of CommitBody: the reference of the list is not dropped.
CommitBody_NoUnref(L, m) ==
  [L EXCEPT !.memlist = Remove(L.memlist, m),
            !.asserted = L.asserted /\ L.mt[m].file_number > 0,
            !.pend = L.pend \ {L.mt[m].file_number},
            !.size = L.size - 1,
            !.committed = Append(L.committed, m)]

\* The commit branch of the do-while body.
CommitBody(L, m) ==
  [L EXCEPT !.memlist = Remove(L.memlist, m),
            !.asserted = L.asserted /\ L.mt[m].file_number > 0,
            !.pend = L.pend \ {L.mt[m].file_number},
            !.mt[m].refs = L.mt[m].refs - 1,
            !.size = L.size - 1,
            !.committed = Append(L.committed, m)]

\* Mutant of RollbackBody: num_flush_not_started_ is not raised.
RollbackBody_NoCount(L, m) ==
  [L EXCEPT !.mt[m].flush_completed = FALSE,
            !.mt[m].flush_in_progress = FALSE,
            !.mt[m].edit = 0,
            !.pend = L.pend \ {L.mt[m].file_number},
            !.mt[m].file_number = 0,
            !.imm = TRUE,
            !.s = "IOError"]

\* The commit-failed branch of the do-while body.
RollbackBody(L, m) ==
  [L EXCEPT !.mt[m].flush_completed = FALSE,
            !.mt[m].flush_in_progress = FALSE,
            !.mt[m].edit = 0,
            !.num = L.num + 1,
            !.pend = L.pend \ {L.mt[m].file_number},
            !.mt[m].file_number = 0,
            !.imm = TRUE,
            !.s = "IOError"]

\* The condition of the do-while: there is a member left and the oldest one
\* carries the file number this call was given.
DoWhileCond(L, fnum) ==
  L.memlist # <<>> /\ L.mt[Back(L.memlist)].file_number = fnum

\* The do-while after LogAndApply returned L.s for the edit of m; turns
\* is the number of further turns after which the loop is given up as
\* endless.
RECURSIVE DoWhile(_, _, _, _)
DoWhile(L, m, fnum, turns) ==
  Let(IF L.s = "ok" THEN CommitBody(L, m) ELSE RollbackBody(L, m),
      LAMBDA L1 : IF DoWhileCond(L1, fnum)
                  THEN IF turns = 0
                       THEN [L1 EXCEPT !.spin = TRUE]
                       ELSE DoWhile(L1, Back(L1.memlist), fnum, turns - 1)
                  ELSE L1)

\* The head of the outer while: TRUE when the scan goes on to call
\* LogAndApply for the oldest member.
ScanCond(L) ==
  /\ L.memlist # <<>>
  /\ L.s = "ok"
  /\ L.mt[Back(L.memlist)].flush_completed

\* Mutant of CommitGuard: the guard is not tested.
CommitGuard_Off == FALSE

\* The guard test: TRUE when the call returns at once.
CommitGuard == commit_in_progress_

\* Mutant of GuardAtReturn: the guard is released on the ok exit only.
GuardAtReturn_KeptOnError(L) == L.s # "ok"

\* commit_in_progress_ as the scan leaves it when it returns with L.s.
GuardAtReturn(L) == FALSE

\* The call of thread t returns s; the flush job of t is over.
Return(t, L) ==
  /\ Store(L)
  /\ pc' = [pc EXCEPT ![t] = "idle"]
  /\ m_' = [m_ EXCEPT ![t] = 0]
  /\ mems' = [mems EXCEPT ![t] = <<>>]
  /\ file_number' = [file_number EXCEPT ![t] = 0]
  /\ flushStatus' = [flushStatus EXCEPT ![t] = "ok"]
  /\ last' = [op |-> "Return", t |-> t, n |-> 0, ret |-> L.s,
              asserted |-> L.asserted]

\* The do-while of thread t does not end: t keeps the mutex and the guard.
Spin(t, L) ==
  /\ Store(L)
  /\ commit_in_progress_' = TRUE
  /\ pc' = [pc EXCEPT ![t] = "spin"]
  /\ m_' = [m_ EXCEPT ![t] = Back(L.memlist)]
  /\ UNCHANGED <<mems, file_number, flushStatus>>
  /\ last' = [op |-> "Spin", t |-> t, n |-> 0, ret |-> L.s,
              asserted |-> L.asserted]

\* The scan, from the head of the outer while up to the next LogAndApply
\* call (which releases the mutex) or up to the return of the call.
Scan(t, L) ==
  IF L.spin THEN Spin(t, L)
  ELSE IF ScanCond(L)
       THEN /\ Store(L)
            /\ commit_in_progress_' = TRUE
            /\ pc' = [pc EXCEPT ![t] = "apply"]
            /\ m_' = [m_ EXCEPT ![t] = Back(L.memlist)]
            /\ UNCHANGED <<mems, file_number, flushStatus>>
            /\ last' = [op |-> "Scan", t |-> t, n |-> 0, ret |-> "ok",
                        asserted |-> L.asserted]
       ELSE /\ commit_in_progress_' = GuardAtReturn(L)
            /\ Return(t, L)

InstallMemtableFlushResults(t) ==
  /\ pc[t] = "flushed"
  /\ IF flushStatus[t] # "ok"
     THEN \E L \in {ResetLoop(Cur, mems[t], file_number[t], 1)} :
            /\ Return(t, [L EXCEPT !.s = flushStatus[t]])
            /\ UNCHANGED commit_in_progress_
     ELSE \E L \in {MarkLoop(Cur, mems[t], file_number[t], 1)} :
            IF CommitGuard
            THEN /\ Return(t, L)
                 /\ UNCHANGED commit_in_progress_
            ELSE Scan(t, L)
  /\ UNCHANGED <<nextId, nextFile, fails, refalls>>
  /\ UNCHANGED <<applied, otherVars>>

\* VersionSet::LogAndApply returns to the scan with status st; the scan
\* runs the do-while for the member m it took before the call and goes on.
LogAndApplyReturn(t) ==
  /\ pc[t] = "apply"
  /\ \E st \in {"ok", "Corruption"} :
       /\ st # "ok" => fails < MaxFail
       /\ fails' = IF st = "ok" THEN fails ELSE fails + 1
       /\ applied' = IF st = "ok" THEN applied \cup {mt[m_[t]].edit}
                     ELSE applied
       /\ \E L \in {DoWhile([Cur EXCEPT !.s = st], m_[t], file_number[t],
                            MaxSpin)} :
            Scan(t, L)
  /\ UNCHANGED <<nextId, nextFile, refalls>>
  /\ UNCHANGED otherVars

\* ---------------------------------------------------------- MergingIterator
\* The keys of a child, in increasing order.
KeySeqs ==
  {ks \in UNION {[1 .. n -> Keys] : n \in 0 .. MaxKey} :
     \A i \in 1 .. Len(ks) - 1 : ks[i] < ks[i + 1]}

\* A child iterator: its keys and its position; position 0 (before the
\* first key) and Len(keys) + 1 (past the last key) are not valid.
ChildStates ==
  {c \in [keys : KeySeqs, pos : 0 .. MaxKey + 1] : c.pos <= Len(c.keys) + 1}

\* child.Valid(), child.key(), child.Seek(target), child.Next()
ChildValid(c) == 1 <= c.pos /\ c.pos <= Len(c.keys)
ChildKey(c) == c.keys[c.pos]
ChildSeek(c, target) ==
  [c EXCEPT !.pos = IF \E i \in 1 .. Len(c.keys) : c.keys[i] >= target
                    THEN CHOOSE i \in 1 .. Len(c.keys) :
                           /\ c.keys[i] >= target
                           /\ \A j \in 1 .. i - 1 : c.keys[j] < target
                    ELSE Len(c.keys) + 1]
ChildNext(c) == [c EXCEPT !.pos = c.pos + 1]

\* comparator_->Equal(a, b)
Equal(a, b) == a = b

\* The iterator state an operation works on.
IterCur ==
  [children |-> children_, current |-> current_, minHeap |-> minHeap_,
   maxHeap |-> maxHeap_, direction |-> direction_]

\* Writes the iterator state I back to the variables.
IterStore(I) ==
  /\ children_' = I.children
  /\ current_' = I.current
  /\ minHeap_' = I.minHeap
  /\ maxHeap_' = I.maxHeap
  /\ direction_' = I.direction

\* MergingIterator::key(): the key of the current child.
Key(I) == ChildKey(I.children[I.current])

\* MergingIterator::ClearHeaps
ClearHeapsBody(I) ==
  [I EXCEPT !.minHeap = <<>>,
            !.maxHeap = IF I.maxHeap.set
                        THEN [set |-> TRUE, heap |-> <<>>] ELSE I.maxHeap]

\* MergingIterator::InitMaxHeap
InitMaxHeapBody(I) ==
  [I EXCEPT !.maxHeap = IF ~I.maxHeap.set
                        THEN [set |-> TRUE, heap |-> <<>>] ELSE I.maxHeap]

\* Mutant of Reposition: a child that lands on key() is not advanced.
Reposition_NoSkip(I, i) ==
  IF i # I.current
  THEN [I EXCEPT !.children[i] = ChildSeek(I.children[i], Key(I))]
  ELSE I

\* The first statement of the loop body of SwitchToForward for child i.
Reposition(I, i) ==
  IF i # I.current
  THEN Let(ChildSeek(I.children[i], Key(I)),
           LAMBDA c : [I EXCEPT !.children[i] =
                         IF ChildValid(c) /\ Equal(Key(I), ChildKey(c))
                         THEN ChildNext(c) ELSE c])
  ELSE I

\* The second statement of the loop body: a valid child goes to minHeap_.
PushIfValid(I, i) ==
  IF ChildValid(I.children[i])
  THEN [I EXCEPT !.minHeap = Append(I.minHeap, i)]
  ELSE I

\* The loop over children_; i is the index of the child.
RECURSIVE SwitchLoop(_, _)
SwitchLoop(I, i) ==
  IF i > Len(I.children) THEN I
  ELSE Let(PushIfValid(Reposition(I, i), i),
           LAMBDA I1 : SwitchLoop(I1, i + 1))

\* MergingIterator::SwitchToForward
SwitchToForwardBody(I) ==
  [SwitchLoop(ClearHeapsBody(I), 1) EXCEPT !.direction = "kForward"]

\* key() needs a valid current child.
SwitchToForward ==
  /\ current_ \in 1 .. Len(children_)
  /\ ChildValid(children_[current_])
  /\ IterStore(SwitchToForwardBody(IterCur))
  /\ last' = [op |-> "SwitchToForward", t |-> 0, n |-> 0, ret |-> "ok",
              asserted |-> TRUE]
  /\ UNCHANGED <<listVars, got, builderVars>>

ClearHeaps ==
  /\ children_ # <<>>
  /\ IterStore(ClearHeapsBody(IterCur))
  /\ last' = [op |-> "ClearHeaps", t |-> 0, n |-> 0, ret |-> "ok",
              asserted |-> TRUE]
  /\ UNCHANGED <<listVars, got, builderVars>>

InitMaxHeap ==
  /\ children_ # <<>>
  /\ IterStore(InitMaxHeapBody(IterCur))
  /\ last' = [op |-> "InitMaxHeap", t |-> 0, n |-> 0, ret |-> "ok",
              asserted |-> TRUE]
  /\ UNCHANGED <<listVars, got, builderVars>>

\* The indexes of the valid children, in the order of children_.
ValidChildren(children) ==
  SelectSeq([i \in 1 .. Len(children) |-> i],
            LAMBDA i : ChildValid(children[i]))

\* A MergingIterator in the middle of a traversal.  Going forward the
\* current child holds the smallest key of the valid children, minHeap_
\* holds the valid children and maxHeap_ may not be allocated yet; going
\* backward the current child holds the largest key, maxHeap_ holds the
\* valid children and minHeap_ is empty.
IterInit ==
  /\ ListInit
  /\ got = NoGet
  /\ NoBuilder
  /\ children_ \in [1 .. NumChildren -> ChildStates]
  /\ current_ \in 1 .. NumChildren
  /\ ChildValid(children_[current_])
  /\ direction_ \in {"kForward", "kReverse"}
  /\ \A i \in 1 .. NumChildren :
       ChildValid(children_[i])
       => IF direction_ = "kForward"
          THEN ChildKey(children_[current_]) <= ChildKey(children_[i])
          ELSE ChildKey(children_[i]) <= ChildKey(children_[current_])
  /\ minHeap_ = IF direction_ = "kForward"
                THEN ValidChildren(children_) ELSE <<>>
  /\ maxHeap_ \in IF direction_ = "kForward"
                   THEN {[set |-> FALSE, heap |-> <<>>],
                         [set |-> TRUE, heap |-> <<>>]}
                   ELSE {[set |-> TRUE, heap |-> ValidChildren(children_)]}

IterNext ==
  \/ SwitchToForward
  \/ ClearHeaps
  \/ InitMaxHeap

IterSpec == IterInit /\ [][IterNext]_vars

\* ------------------------------------------------------ MergeIteratorBuilder
NoFault == [what |-> "none", crashed |-> FALSE]

\* The constructor with arena a.  It asks a for storage without testing
\* it: when a is null the call is undefined; the process dies, or the call
\* returns storage that no allocator handed out ("wild").
Constructed(a) ==
  IF a # "null"
  THEN {[arena |-> a, merge_iter |-> [ptr |-> "arena", children |-> <<>>],
         fault |-> NoFault]}
  ELSE {[arena |-> a, merge_iter |-> NullIter,
         fault |-> [what |-> "null arena", crashed |-> TRUE]],
        [arena |-> a, merge_iter |-> [ptr |-> "wild", children |-> <<>>],
         fault |-> [what |-> "null arena", crashed |-> FALSE]]}

\* AddIterator(iter) on the builder B.  With merge_iter null the call is
\* undefined: the process dies, or the write lands nowhere visible.
AddedTo(B, iter) ==
  IF B.merge_iter.ptr # "null"
  THEN {[B EXCEPT !.merge_iter.children = Append(B.merge_iter.children, iter)]}
  ELSE {[B EXCEPT !.fault = [what |-> "null merge_iter", crashed |-> TRUE]],
        [B EXCEPT !.fault = [what |-> "null merge_iter", crashed |-> FALSE]]}

\* Finish() on the builder B: the builder afterwards.
Finished(B) == [B EXCEPT !.merge_iter = NullIter]

\* The builder as the variables hold it.
BuilderCur == [arena |-> arena, merge_iter |-> merge_iter, fault |-> fault]

BuilderStore(B) ==
  /\ arena' = B.arena
  /\ merge_iter' = B.merge_iter
  /\ fault' = B.fault

MergeIteratorBuilder(a) ==
  /\ arena = "none"
  /\ ~fault.crashed
  /\ \E B \in Constructed(a) :
       /\ BuilderStore(B)
       /\ last' = [op |-> "MergeIteratorBuilder", t |-> 0, n |-> 0,
                   ret |-> IF B.fault.crashed THEN "crash" ELSE "ok",
                   asserted |-> TRUE]
  /\ UNCHANGED <<listVars, got, iterVars, returned, added, finishes>>

AddIterator(iter) ==
  /\ arena # "none"
  /\ ~fault.crashed
  /\ Len(added) < MaxIters
  /\ \E B \in AddedTo(BuilderCur, iter) :
       /\ BuilderStore(B)
       /\ last' = [op |-> "AddIterator", t |-> 0, n |-> iter,
                   ret |-> IF B.fault.crashed THEN "crash" ELSE "ok",
                   asserted |-> TRUE]
  /\ added' = Append(added, iter)
  /\ UNCHANGED <<listVars, got, iterVars, returned, finishes>>

Finish ==
  /\ arena # "none"
  /\ ~fault.crashed
  /\ finishes < MaxFinish
  /\ returned' = merge_iter
  /\ BuilderStore(Finished(BuilderCur))
  /\ finishes' = finishes + 1
  /\ last' = [op |-> "Finish", t |-> 0, n |-> 0, ret |-> merge_iter.ptr,
              asserted |-> TRUE]
  /\ UNCHANGED <<listVars, got, iterVars, added>>

\* WrapToMergingIterator(iter): a local builder with no arena, one
\* AddIterator, Finish.
WrapToMergingIterator(iter) ==
  /\ ~fault.crashed
  /\ \E B1 \in Constructed("null") :
       IF B1.fault.crashed
       THEN /\ fault' = B1.fault
            /\ returned' = returned
            /\ last' = [op |-> "WrapToMergingIterator", t |-> 0, n |-> iter,
                        ret |-> "crash", asserted |-> TRUE]
       ELSE \E B2 \in AddedTo(B1, iter) :
              /\ fault' = B2.fault
              /\ returned' = B2.merge_iter
              /\ last' = [op |-> "WrapToMergingIterator", t |-> 0, n |-> iter,
                          ret |-> "ok", asserted |-> TRUE]
  /\ UNCHANGED <<listVars, got, iterVars, arena, merge_iter, added, finishes>>

\* NewMergingIterator(cmp, list, n, a)
NewMergingIterator(list, a) ==
  /\ ~fault.crashed
  /\ returned' = [ptr |-> IF a = "null" THEN "heap" ELSE "arena",
                  children |-> list]
  /\ last' = [op |-> "NewMergingIterator", t |-> 0, n |-> Len(list),
              ret |-> "ok", asserted |-> Len(list) >= 0]
  /\ UNCHANGED <<listVars, got, iterVars, arena, merge_iter, added, finishes,
                 fault>>

BuilderNext ==
  \/ \E a \in {"null", "arena"} : MergeIteratorBuilder(a)
  \/ \E iter \in Iters : AddIterator(iter)
  \/ Finish
  \/ \E iter \in Iters : WrapToMergingIterator(iter)
  \/ \E list \in UNION {[1 .. n -> Iters] : n \in 0 .. MaxIters},
        a \in {"null", "arena"} : NewMergingIterator(list, a)

BuilderSpec == Init /\ [][BuilderNext]_vars

\* The writers and the flush jobs.
Next ==
  \/ Add
  \/ \E t \in Threads : PickMemtablesToFlush(t)
  \/ \E t \in Threads : WriteLevel0Table(t)
  \/ \E t \in Threads : InstallMemtableFlushResults(t)
  \/ \E t \in Threads : LogAndApplyReturn(t)

Spec == Init /\ [][Next]_vars

\* The writers and the flush jobs together with the calls that only read
\* the counters (size, IsFlushPending) or pin the members (RefAll).
ReaderNext ==
  \/ Next
  \/ RefAll
  \/ size
  \/ \E th \in Thresholds : IsFlushPending(th)

ReaderSpec == Init /\ [][ReaderNext]_vars

\* A step of a flush job that does something: picking a nonempty batch,
\* flushing it, installing the result, going on after LogAndApply.
FlushStep ==
  \E t \in Threads :
    \/ PickMemtablesToFlush(t) /\ mems'[t] # <<>>
    \/ WriteLevel0Table(t)
    \/ InstallMemtableFlushResults(t)
    \/ LogAndApplyReturn(t)

\* The writers and the flush jobs, with fewer memtables.
FlushNext ==
  \/ nextId <= MaxLiveMems /\ Add
  \/ \E t \in Threads : PickMemtablesToFlush(t)
  \/ \E t \in Threads : WriteLevel0Table(t)
  \/ \E t \in Threads : InstallMemtableFlushResults(t)
  \/ \E t \in Threads : LogAndApplyReturn(t)

\* The flush threads keep running: while a flush job can take a step, some
\* flush job eventually takes one.
FairSpec == Init /\ [][FlushNext]_vars /\ WF_vars(FlushStep)

\* Lookups while one flush thread works through the list.
GetNext ==
  \/ nextId <= MaxLiveMems /\ Add
  \/ PickMemtablesToFlush(1)
  \/ WriteLevel0Table(1)
  \/ InstallMemtableFlushResults(1)
  \/ LogAndApplyReturn(1)
  \/ Get

GetSpec == Init /\ [][GetNext]_vars

\* No thread sits in an endless loop with the mutex.
MutexFree == \A t \in Threads : pc[t] # "spin"

\* The list when the callers may hand any file number to
\* InstallMemtableFlushResults, 0 included: the first flush is given 0.
ZeroInit ==
  /\ ListInitFrom(0)
  /\ got = NoGet
  /\ NoIter
  /\ NoBuilder

ZeroNext ==
  \/ MutexFree /\ Add
  \/ \E t \in Threads : MutexFree /\ PickMemtablesToFlush(t)
  \/ \E t \in Threads : MutexFree /\ WriteLevel0Table(t)
  \/ \E t \in Threads : MutexFree /\ InstallMemtableFlushResults(t)
  \/ \E t \in Threads : MutexFree /\ LogAndApplyReturn(t)

ZeroSpec == ZeroInit /\ [][ZeroNext]_vars

\* ------------------------------------------------------------ properties
\* The members of the list, as a set.
Members == {memlist_[i] : i \in 1 .. Len(memlist_)}

\* The memtables committed so far, as a set.
Committed == {committed[i] : i \in 1 .. Len(committed)}

\* The three flush states of a member.
Queued(x) == ~x.flush_in_progress /\ ~x.flush_completed /\ x.file_number = 0
Selected(x) == x.flush_in_progress /\ ~x.flush_completed /\ x.file_number = 0
FlushCompleted(x) == x.flush_in_progress /\ x.flush_completed /\ x.file_number > 0

\* C1: in every reachable state 0 <= num_flush_not_started_ <= size_ (which
\* is what size() asserts), and the assertion of Add() held whenever it was
\* evaluated.
C1_CountBounds ==
  /\ 0 <= num_flush_not_started_
  /\ num_flush_not_started_ <= size_
  /\ last.op = "Add" => last.asserted

\* C1 witness: Add() ran while a scan had released the mutex in LogAndApply
\* and after a failure had put a memtable back in the queue.
C1_Witness ==
  /\ last.op = "Add"
  /\ num_flush_not_started_ = 2
  /\ size_ = 3
  /\ fails = 1
  /\ \E t \in Threads : pc[t] = "apply"

\* The members of list in the opposite order.
Reverse(list) == [i \in 1 .. Len(list) |-> list[Len(list) + 1 - i]]

\* The elements of a sequence, as a set.
Range(list) == {list[i] : i \in 1 .. Len(list)}

\* The step is the return, or the next LogAndApply call, of the scan of
\* thread t after a LogAndApply call returned.
AfterApply(t) ==
  pc[t] = "apply" /\ last'.t = t /\ last'.op \in {"Scan", "Return"}

\* The step is (the first critical section of) a call of
\* InstallMemtableFlushResults by thread t.
InstallBy(t) == pc[t] = "flushed" /\ pc'[t] # "flushed"

\* C2: memtables are committed in creation order: the committed memtables
\* were committed oldest first, every member of the list is newer than every
\* committed memtable, and only flush-completed memtables are committed.
C2_CommitOrder ==
  /\ \A i, j \in 1 .. Len(committed) : i < j => committed[i] < committed[j]
  /\ \A a \in Members : \A c \in Committed : c < a
  /\ \A c \in Committed : mt[c].flush_completed

\* C2 witness: two memtables were committed of which the older one finished
\* its flush (took its file number) after the newer one.
C2_Witness ==
  \E i, j \in 1 .. Len(committed) :
    /\ i < j
    /\ mt[committed[i]].file_number > mt[committed[j]].file_number

\* C3: at most one thread is in the commit scan, the guard is held exactly
\* while a thread is in the scan (so it is released at every return), no
\* memtable is committed twice, and a successful call that finds the guard
\* taken returns ok without changing the list, the counters or
\* pending_outputs.
C3_SingleFlight ==
  /\ [](/\ Cardinality({t \in Threads : pc[t] = "apply"}) <= 1
        /\ commit_in_progress_ <=> (\E t \in Threads : pc[t] = "apply")
        /\ \A i, j \in 1 .. Len(committed) :
             i # j => committed[i] # committed[j])
  /\ [][\A t \in Threads :
          (InstallBy(t) /\ flushStatus[t] = "ok" /\ commit_in_progress_)
          => /\ pc'[t] = "idle"
             /\ last'.op = "Return" /\ last'.t = t /\ last'.ret = "ok"
             /\ memlist_' = memlist_
             /\ size_' = size_
             /\ num_flush_not_started_' = num_flush_not_started_
             /\ pending_outputs' = pending_outputs
             /\ committed' = committed
             /\ commit_in_progress_']_vars

\* C3 witness: a thread is in the scan, the other thread has just returned
\* ok from a call that found the guard taken, leaving its memtable
\* flush-completed in the list.
C3_Witness ==
  \E t, u \in Threads :
    /\ t # u
    /\ pc[t] = "apply"
    /\ pc[u] = "idle"
    /\ last.op = "Return" /\ last.t = u /\ last.ret = "ok"
    /\ \E m \in Members :
         /\ mt[m].flush_completed
         /\ mt[m].file_number # mt[m_[t]].file_number

\* C4: a flush-completed member is eventually committed (under FairSpec,
\* where failures are finitely many); and whenever no scan holds the guard
\* the oldest member is not flush-completed, so that a scan whose applies
\* all succeed has committed every completed member whose older members
\* were all completed before it releases the guard.
C4_NoStarvation ==
  /\ \A m \in MemIds :
       (m \in Members /\ mt[m].flush_completed) ~> (m \in Committed)
  /\ [](~commit_in_progress_ =>
          (memlist_ = <<>> \/ ~mt[Back(memlist_)].flush_completed))

\* C4 witness: the scan of a thread has committed a memtable and goes on to
\* apply the edit of a memtable that another call marked flush-completed
\* (it carries another file number than the one of the scanning call).
C4_Witness ==
  \E t \in Threads :
    /\ pc[t] = "apply"
    /\ last.op = "Scan" /\ last.t = t
    /\ committed # <<>>
    /\ mt[m_[t]].file_number # file_number[t]

\* C5: after a failed LogAndApply the call returns an IO error, the list
\* keeps all its members, and every member of the batch whose commit failed
\* (the members carrying the file number of the member whose edit was
\* applied) is back in the Queued state with its edit cleared.
C5_CommitFailureRollsBackBatch ==
  [][\A t \in Threads :
       (AfterApply(t) /\ fails' # fails)
       => /\ last'.op = "Return" /\ last'.ret = "IOError"
          /\ memlist_' = memlist_
          /\ \A x \in Members :
               mt[x].file_number = mt[m_[t]].file_number
               => Queued(mt'[x]) /\ mt'[x].edit = 0]_vars

\* C6: a call with a failed flush status leaves every member of the batch
\* with flush_in_progress and flush_completed false and its edit cleared,
\* raises num_flush_not_started_ by the size of the batch, sets the signal,
\* leaves the file number out of pending_outputs, returns the status it was
\* given, and leaves the list, size_, and the guard alone without going to
\* LogAndApply.
C6_FlushFailure ==
  [][\A t \in Threads :
       (InstallBy(t) /\ flushStatus[t] # "ok")
       => /\ \A m \in Range(mems[t]) :
               /\ ~mt'[m].flush_in_progress
               /\ ~mt'[m].flush_completed
               /\ mt'[m].edit = 0
          /\ num_flush_not_started_' = num_flush_not_started_ + Len(mems[t])
          /\ imm_flush_needed'
          /\ file_number[t] \notin pending_outputs'
          /\ last'.op = "Return" /\ last'.t = t /\ last'.ret = flushStatus[t]
          /\ memlist_' = memlist_
          /\ size_' = size_
          /\ commit_in_progress_' = commit_in_progress_
          /\ committed' = committed
          /\ pc'[t] = "idle"]_vars

\* C6 witness: a call returned the flush failure it was given after it
\* rolled back a batch of two memtables.
C6_Witness ==
  /\ last.op = "Return" /\ last.ret = "Corruption"
  /\ num_flush_not_started_ = 2
  /\ size_ >= 2
  /\ nextFile \notin pending_outputs
  /\ \E m \in Members : Queued(mt[m]) /\ mt[m].edit = 0

\* C7: when LogAndApply returns ok, the members the scan then commits are
\* gone from the list, size_ goes down by their number, their file numbers
\* are not in pending_outputs, each of them lost exactly one reference,
\* num_flush_not_started_ is unchanged, and the other members keep their
\* place and their reference count.
C7_CommitEffects ==
  [][\A t \in Threads :
       (AfterApply(t) /\ fails' = fails)
       => LET newly == SubSeq(committed', Len(committed) + 1, Len(committed'))
          IN /\ Len(newly) >= 1
             /\ newly[1] = m_[t]
             /\ Cardinality(Range(newly)) = Len(newly)
             /\ Range(newly) \subseteq Members
             /\ memlist_' = SelectSeq(memlist_, LAMBDA x : x \notin Range(newly))
             /\ size_' = size_ - Len(newly)
             /\ \A c \in Range(newly) :
                  /\ mt[c].file_number \notin pending_outputs'
                  /\ mt'[c].refs = mt[c].refs - 1
             /\ num_flush_not_started_' = num_flush_not_started_
             /\ \A x \in Members \ Range(newly) : mt'[x].refs = mt[x].refs]_vars

\* C7 witness: a scan has committed two memtables, which lost the reference
\* of the list, and a member is left in the list with its reference.
C7_Witness ==
  /\ last.op \in {"Scan", "Return"} /\ last.ret = "ok"
  /\ Len(committed) >= 2
  /\ \A c \in Committed : mt[c].refs = 0
  /\ memlist_ # <<>>
  /\ \A m \in Members : mt[m].refs = 1
  /\ size_ = Len(memlist_)

\* C8: PickMemtablesToFlush returns exactly the members that were not
\* flush_in_progress, oldest first, marks them flush_in_progress, lowers
\* num_flush_not_started_ by their number, to 0, leaves the list and size_
\* alone, and a second call right after it would pick nothing.
C8_Pick ==
  [][\A t \in Threads :
       (last'.op = "Pick" /\ last'.t = t)
       => /\ mems'[t] = Reverse(SelectSeq(memlist_,
                           LAMBDA x : ~mt[x].flush_in_progress))
          /\ \A m \in Range(mems'[t]) : mt'[m].flush_in_progress
          /\ \A m \in MemIds \ Range(mems'[t]) : mt'[m] = mt[m]
          /\ num_flush_not_started_' = num_flush_not_started_ - Len(mems'[t])
          /\ num_flush_not_started_' = 0
          /\ memlist_' = memlist_
          /\ size_' = size_
          /\ PickLoop(Cur, Len(memlist_))'.ret = <<>>]_vars

\* C8 witness: a call has picked two memtables and skipped a member that
\* another thread is flushing.
C8_Witness ==
  \E t, u \in Threads :
    /\ t # u
    /\ last.op = "Pick" /\ last.t = t
    /\ Len(mems[t]) = 2
    /\ Len(mems[u]) = 1
    /\ mems[t][1] < mems[u][1] /\ mems[u][1] < mems[t][2]

\* C9: the flush-needed signal is set exactly when num_flush_not_started_
\* is positive; it is set only by Add and by the two rollbacks, when the
\* count leaves 0, and cleared only by PickMemtablesToFlush, when the count
\* reaches 0.
C9_Signal ==
  /\ [](imm_flush_needed <=> num_flush_not_started_ > 0)
  /\ [][imm_flush_needed' # imm_flush_needed
        => \/ /\ last'.op = "Add"
              /\ imm_flush_needed'
              /\ num_flush_not_started_ = 0
              /\ num_flush_not_started_' > 0
           \/ /\ last'.op = "Return" /\ last'.ret # "ok"
              /\ imm_flush_needed'
              /\ num_flush_not_started_ = 0
              /\ num_flush_not_started_' > 0
           \/ /\ last'.op = "Pick"
              /\ ~imm_flush_needed'
              /\ num_flush_not_started_ > 0
              /\ num_flush_not_started_' = 0]_vars

\* C9 witness: the rollback after a failed LogAndApply has set the signal
\* again.
C9_Witness ==
  /\ last.op = "Return" /\ last.ret = "IOError"
  /\ imm_flush_needed
  /\ num_flush_not_started_ = 1

\* C10: IsFlushPending(threshold) returns true exactly when
\* num_flush_not_started_ >= threshold, and when it returns true the
\* flush-needed signal is set, so that its assertion holds.
C10_IsFlushPending ==
  last.op = "IsFlushPending"
  => /\ (last.ret = "true") <=> (num_flush_not_started_ >= last.n)
     /\ last.ret = "true" => imm_flush_needed
     /\ last.asserted

\* The positions of list whose member resolves the lookup look.
Resolving(list, look) == {i \in 1 .. Len(list) : Resolves(look[list[i]])}

\* The smallest element of a nonempty set of numbers.
Min(S) == CHOOSE x \in S : \A y \in S : x <= y

\* C11: Get consults the members from the newest one; when some member
\* resolves the lookup it returns true with the newest such member, having
\* consulted that member and the newer ones only; otherwise it returns
\* false having consulted every member once, newest first; the operands
\* are those on entry followed by the merge operands of the consulted
\* members in that order; the list, the flush state and the counters are
\* left alone.
C11_Get ==
  [][last'.op = "Get"
     => LET look == got'.look
            res == Resolving(memlist_, look)
            upto == IF res = {} THEN Len(memlist_) ELSE Min(res)
        IN /\ got'.ret <=> res # {}
           /\ res # {} => /\ got'.by = memlist_[Min(res)]
                          /\ Resolves(look[got'.by])
           /\ got'.consulted = SubSeq(memlist_, 1, upto)
           /\ got'.operands =
                got'.operands0 \o SelectSeq(SubSeq(memlist_, 1, upto),
                                            LAMBDA x : look[x] = "merge")
           /\ (last'.ret = "true") <=> got'.ret
           /\ UNCHANGED <<memlist_, size_, num_flush_not_started_,
                          commit_in_progress_, imm_flush_needed, mt,
                          pending_outputs, committed>>]_vars

\* C11 witness: the newest member held a merge operand and the older one
\* resolved the lookup, while the older one was being flushed.
C11_Witness ==
  /\ last.op = "Get"
  /\ Len(memlist_) = 2
  /\ got.ret
  /\ got.by = memlist_[2]
  /\ got.consulted = memlist_
  /\ got.operands = <<0, memlist_[1]>>
  /\ mt[memlist_[2]].flush_completed

\* C12: after SwitchToForward with the current child at key K the
\* direction is forward, the current child has not moved, every other
\* child is at its smallest key greater than K (invalid when it has none),
\* and minHeap_ holds the valid children, each once, and nothing else.
C12_SwitchToForward ==
  [][last'.op = "SwitchToForward"
     => LET K == ChildKey(children_[current_])
            valid == {i \in 1 .. Len(children_') : ChildValid(children_'[i])}
        IN /\ direction_' = "kForward"
           /\ current_' = current_
           /\ Len(children_') = Len(children_)
           /\ children_'[current_] = children_[current_]
           /\ \A i \in (1 .. Len(children_)) \ {current_} :
                LET c == children_'[i]
                    later == {k \in Range(c.keys) : k > K}
                IN /\ c.keys = children_[i].keys
                   /\ IF later = {} THEN ~ChildValid(c)
                      ELSE ChildValid(c) /\ ChildKey(c) = Min(later)
           /\ Range(minHeap_') = valid
           /\ Len(minHeap_') = Cardinality(valid)]_vars

\* C12 witness: a child other than the current one holds the key K of the
\* current child and stands on a greater key after SwitchToForward, and both
\* children are in minHeap_.
C12_Witness ==
  /\ last.op = "SwitchToForward"
  /\ direction_ = "kForward"
  /\ Len(minHeap_) = 2
  /\ \E i \in 1 .. Len(children_) :
       /\ i # current_
       /\ ChildValid(children_[i])
       /\ ChildKey(children_[current_]) \in Range(children_[i].keys)
       /\ ChildKey(children_[i]) > ChildKey(children_[current_])

\* C13: the first Finish returns the iterator holding exactly the iterators
\* passed to AddIterator so far and leaves the builder holding nothing; a
\* second Finish fails fast and returns nothing to the caller.
C13_Finish ==
  last.op = "Finish"
  => /\ merge_iter = NullIter
     /\ IF finishes = 1
        THEN /\ returned.ptr # "null"
             /\ returned.children = added
        ELSE last.ret = "failfast"

\* C14: when LogAndApply returns ok for the oldest member m, the scan
\* commits, without another LogAndApply, every member that follows m
\* directly and carries the file number of m, and the member it then calls
\* LogAndApply for, if any, carries another file number: one LogAndApply
\* for each batch, whichever call installed the batch.
C14_OneApplyPerBatch ==
  [][\A t \in Threads :
       (AfterApply(t) /\ fails' = fails)
       => LET f == mt[m_[t]].file_number
          IN /\ \A i \in 1 .. Len(memlist_) :
                  (\A j \in i .. Len(memlist_) : mt[memlist_[j]].file_number = f)
                  => memlist_[i] \in Committed'
             /\ pc'[t] = "apply" => mt'[m_'[t]].file_number # f]_vars

\* C15: while a scan waits in LogAndApply for the edit of m, whatever the
\* other threads do, m stays the oldest member of the list and stays
\* flush-completed; when LogAndApply returns, the member the scan removes
\* first (on ok) or rolls back (on failure) is m, the tail at that moment,
\* and a failure touches no other memtable.
C15_CachedTail ==
  /\ [](\A t \in Threads :
          pc[t] = "apply"
          => /\ memlist_ # <<>>
             /\ Back(memlist_) = m_[t]
             /\ mt[m_[t]].flush_completed
             /\ m_[t] \notin Committed)
  /\ [][\A t \in Threads :
          AfterApply(t)
          => IF fails' = fails
             THEN /\ Len(committed') > Len(committed)
                  /\ committed'[Len(committed) + 1] = m_[t]
                  /\ m_[t] \notin Range(memlist_')
             ELSE /\ Queued(mt'[m_[t]])
                  /\ memlist_' = memlist_
                  /\ \A x \in MemIds \ {m_[t]} : mt'[x] = mt[x]]_vars

\* C15 witness: while the scan of one thread waits in LogAndApply, a new
\* memtable was added and another thread has just picked a batch.
C15_Witness ==
  \E t, u \in Threads :
    /\ t # u
    /\ pc[t] = "apply"
    /\ last.op = "Pick" /\ last.t = u
    /\ mems[u] # <<>>
    /\ mems[u][1] > m_[t]
    /\ Back(memlist_) = m_[t]

\* C17: every committed memtable holds a file number whose edit (the edit
\* of the first member of the batch flushed to that file) LogAndApply has
\* applied: no memtable leaves the list on an empty edit alone or on the
\* edit of another flush.
C17_CommittedOnOwnEdit ==
  \A c \in Committed : mt[c].file_number \in applied \ {0}

\* C16: a builder constructed with no arena lives in default storage,
\* WrapToMergingIterator(iter) returns an iterator whose only child is
\* iter, and no call asks a missing arena for storage.
C16_NullArena ==
  /\ fault.what # "null arena"
  /\ (arena = "null" /\ finishes = 0) => merge_iter.ptr = "heap"
  /\ last.op = "WrapToMergingIterator"
     => /\ last.ret = "ok"
        /\ returned.ptr = "heap"
        /\ returned.children = <<last.n>>

\* C18: in every reachable state num_flush_not_started_ is the number of
\* members whose flush_in_progress is false and size_ is the number of
\* members.
C18_Counters ==
  /\ num_flush_not_started_ =
       Cardinality({m \in Members : ~mt[m].flush_in_progress})
  /\ size_ = Len(memlist_)
  /\ Cardinality(Members) = Len(memlist_)

\* C18 witness: after a commit and a rollback the list holds a member
\* waiting for a flush and a member whose flush is under way or done.
C18_Witness ==
  /\ fails = 1
  /\ last.op = "Return" /\ last.ret = "IOError"
  /\ committed # <<>>
  /\ size_ = 2
  /\ num_flush_not_started_ = 1
  /\ \E m \in Members : mt[m].flush_in_progress

\* C19: every member of the list is Queued, Selected or FlushCompleted (no
\* other combination of flush_in_progress, flush_completed and file_number
\* occurs), and the assertions of PickMemtablesToFlush and of
\* InstallMemtableFlushResults held whenever they were evaluated.
C19_FlushStates ==
  /\ \A m \in Members :
       Queued(mt[m]) \/ Selected(mt[m]) \/ FlushCompleted(mt[m])
  /\ \A m \in Members :
       /\ mt[m].flush_completed => mt[m].flush_in_progress
       /\ mt[m].file_number # 0 <=> mt[m].flush_completed
  /\ last.op \in {"Pick", "Return", "Scan"} => last.asserted

\* C19 witness: the list holds a Queued, a Selected and a FlushCompleted
\* member after a flush failure went through its assertions.
C19_Witness ==
  /\ \E m \in Members : Queued(mt[m])
  /\ \E m \in Members : Selected(mt[m])
  /\ \E m \in Members : FlushCompleted(mt[m])
  /\ last.op = "Return" /\ last.ret = "Corruption"

\* C20: every call of InstallMemtableFlushResults comes to its end, whatever
\* file number it was given (0 included) and whatever LogAndApply returns:
\* no do-while runs without end; after a failed LogAndApply the scan rolls
\* back once, raising num_flush_not_started_ by one, and returns; and each
\* LogAndApply call is made for a flush-completed member at the tail.
C20_Terminates ==
  /\ [](\A t \in Threads : pc[t] # "spin")
  /\ [][\A t \in Threads :
          (pc[t] = "apply" /\ last'.t = t /\ fails' # fails)
          => /\ last'.op = "Return"
             /\ num_flush_not_started_' = num_flush_not_started_ + 1]_vars
  /\ [](\A t \in Threads :
          pc[t] = "apply" => mt[m_[t]].flush_completed)

====
